---- MODULE Spec2Model ----
(***************************************************************************)
(* The per-connection WebSocket relay of node/ws-relay.mjs                 *)
(* (wss.on('connection', ...), lines 118-178).                             *)
(*                                                                         *)
(* One relay session is modelled: the closure variables live, liveReady,   *)
(* closed and pending, the connect timer, and the calls the session makes  *)
(* on its two collaborators.  `down` is the sequence of calls made on the  *)
(* client socket (send(client, obj) and client.close()), `up` the sequence *)
(* of calls made on the upstream handle (live.send(...) and live.close()), *)
(* `logs` the 'end' log entries written by shutdown.  What the ws library  *)
(* or the SDK does with a call is outside the program: the calls are the   *)
(* program's observable output.                                            *)
(*                                                                         *)
(* Node runs every callback to completion, so each handler is one action.  *)
(* The source file stops inside onResponse (line 177): onResponse and the  *)
(* catch clause of the try opened at line 141 are not modelled.            *)
(***************************************************************************)
EXTENDS Integers, Sequences, FiniteSets, TLC

\* Bounds of the model.
MaxMsgs == 2        \* client frames received over the life of the session
MaxLiveErrs == 1    \* upstream onError events

\* The client frames, by what JSON.parse and forward make of them.
\*   setup      {type:'setup', systemInstruction:<non-empty>}
\*   setupNoSI  {type:'setup'} with no (or a falsy) systemInstruction
\*   text       {type:'text', text:<string>}
\*   textNoStr  {type:'text', text:<not a string>}
\*   end        {type:'end'}
\*   other      well-formed JSON object of an unknown type
\*   null       the JSON text null (parses, but m.type raises a TypeError)
\*   notjson    a frame JSON.parse rejects
Kinds == {"setup", "setupNoSI", "text", "textNoStr", "end", "other", "null", "notjson"}

VARIABLES
  stage,        \* position of the connection handler: "new", "nokey", "connecting", "resolved"
  live,         \* TRUE when the handle returned by ai.live.connect is stored in `live`
  liveReady,
  closed,
  pending,      \* queue of parsed client messages
  timer,        \* "none", "armed", "cleared", "fired"
  up,           \* calls made on the upstream handle
  down,         \* calls made on the client socket
  logs,         \* reasons logged by log('end', why)
  connectCalls, \* number of ai.live.connect calls
  uncaught,     \* TRUE when an exception left the onOpen callback
  recv,         \* history: the client frames in arrival order
  openFired,    \* history: the upstream delivered onOpen
  liveClosedEvt,\* history: the upstream delivered onClose
  liveErrs,     \* history: number of onError events
  clientGone,   \* history: the client socket delivered 'close'
  last          \* history: the handler that ran last

vars == <<stage, live, liveReady, closed, pending, timer, up, down, logs,
          connectCalls, uncaught, recv, openFired, liveClosedEvt, liveErrs,
          clientGone, last>>

env == <<recv, openFired, liveClosedEvt, liveErrs, clientGone>>

----------------------------------------------------------------------------
\* Values written to the collaborators.

Msg(k, i) == [kind |-> k, id |-> i]

DownMsg(t, v) == [type |-> t, val |-> v]
ErrNoKey     == DownMsg("error", "GEMINI_API_KEY missing on relay")
ErrTimeout   == DownMsg("error", "Live connect timed out (15s) on relay")
ErrSyntax    == DownMsg("error", "SyntaxError")
ErrType      == DownMsg("error", "TypeError")
ErrLive      == DownMsg("error", "live error")
StatusOpen   == DownMsg("status", "open")
StatusClosed == DownMsg("status", "closed")
ClientCloseCall == DownMsg("close()", "")

UpSend(k, i) == [op |-> "send", kind |-> k, id |-> i]
LiveCloseCall == [op |-> "close()", kind |-> "", id |-> 0]

----------------------------------------------------------------------------
\* The closure state the handlers work on, as one record.

Cur == [live |-> live, liveReady |-> liveReady, closed |-> closed,
        pending |-> pending, up |-> up, down |-> down, logs |-> logs,
        err |-> ""]

Commit(s) ==
  /\ live' = s.live
  /\ liveReady' = s.liveReady
  /\ closed' = s.closed
  /\ pending' = s.pending
  /\ up' = s.up
  /\ down' = s.down
  /\ logs' = s.logs

\* send(ws, obj): ws.send(JSON.stringify(obj)), errors swallowed.
send(s, obj) == [s EXCEPT !.down = Append(@, obj)]

----------------------------------------------------------------------------
\* shutdown(why), lines 123-128.  live?.close?.() calls close only on an
\* assigned handle; client?.close?.() is always called.

shutdownNoGuard(s, why) ==
  [s EXCEPT !.closed = TRUE,
            !.up = IF s.live THEN Append(@, LiveCloseCall) ELSE @,
            !.down = Append(@, ClientCloseCall),
            !.logs = Append(@, why)]

shutdown(s, why) ==
  IF s.closed THEN s
  ELSE [s EXCEPT !.closed = TRUE,
                 !.up = IF s.live THEN Append(@, LiveCloseCall) ELSE @,
                 !.down = Append(@, ClientCloseCall),
                 !.logs = Append(@, why)]

\* live.send?.(directive), lines 132-133: with `live` still undefined the
\* member access raises a TypeError and nothing is sent.
liveSend(s, m) ==
  IF s.live THEN [s EXCEPT !.up = Append(@, UpSend(m.kind, m.id))]
  ELSE [s EXCEPT !.err = "TypeError"]

\* forward(m), lines 130-135.  The result's err field is the exception the
\* call raised, "" when it returned normally.
forwardNoReadyGate(s, m) ==
  IF m.kind = "null" THEN [s EXCEPT !.err = "TypeError"]
  ELSE IF m.kind \in {"setup", "text"} THEN liveSend(s, m)
  ELSE IF m.kind = "end" THEN shutdown(s, "client requested end")
  ELSE s

forwardEndIgnored(s, m) ==
  IF ~s.liveReady THEN [s EXCEPT !.pending = Append(@, m)]
  ELSE IF m.kind = "null" THEN [s EXCEPT !.err = "TypeError"]
  ELSE IF m.kind \in {"setup", "text"} THEN liveSend(s, m)
  ELSE s

forward(s, m) ==
  IF ~s.liveReady THEN [s EXCEPT !.pending = Append(@, m)]
  ELSE IF m.kind = "null" THEN [s EXCEPT !.err = "TypeError"]
  ELSE IF m.kind = "setup" THEN liveSend(s, m)
  ELSE IF m.kind = "text" THEN liveSend(s, m)
  ELSE IF m.kind = "end" THEN shutdown(s, "client requested end")
  ELSE s

\* client.on('message'), line 137: JSON.parse, forward, and the catch that
\* reports any exception of either downstream.
onMessageParseFatal(s, m) ==
  IF m.kind = "notjson" THEN shutdown(send(s, ErrSyntax), "parse error")
  ELSE LET r == forward(s, m)
       IN IF r.err # "" THEN send([r EXCEPT !.err = ""], ErrType) ELSE r

onMessage(s, m) ==
  IF m.kind = "notjson" THEN send(s, ErrSyntax)
  ELSE LET r == forward(s, m)
       IN IF r.err # "" THEN send([r EXCEPT !.err = ""], ErrType) ELSE r

\* The connect timer's callback, lines 147-149.
onTimerNoShutdown(s) ==
  IF ~s.liveReady THEN send(s, ErrTimeout) ELSE s

onTimerShutdownFirst(s) ==
  IF ~s.liveReady THEN send(shutdown(s, "connect timeout"), ErrTimeout) ELSE s

onTimer(s) ==
  IF ~s.liveReady THEN shutdown(send(s, ErrTimeout), "connect timeout") ELSE s

\* for (const m of pending.splice(0)) forward(m), line 167: the removed
\* entries are forwarded in order; an exception ends the loop and the
\* entries after it are lost.
RECURSIVE drain(_, _)
drain(s, q) ==
  IF q = <<>> THEN s
  ELSE LET r == forward(s, Head(q))
       IN IF r.err # "" THEN r ELSE drain(r, Tail(q))

\* onOpen, lines 162-168 (clearTimeout is in the action).
onOpenNoSplice(s) ==
  LET s1 == [s EXCEPT !.liveReady = TRUE]
      s2 == send(s1, StatusOpen)
  IN drain(s2, s2.pending)

onOpenDrainFirst(s) ==
  LET s1 == [s EXCEPT !.liveReady = TRUE]
      s2 == drain([s1 EXCEPT !.pending = <<>>], s1.pending)
  IN IF s2.err # "" THEN s2 ELSE send(s2, StatusOpen)

onOpen(s) ==
  LET s1 == [s EXCEPT !.liveReady = TRUE]
      s2 == send(s1, StatusOpen)
      s3 == [s2 EXCEPT !.pending = <<>>]
  IN drain(s3, s2.pending)

\* onClose, line 169.
onCloseShutdownFirst(s) == send(shutdown(s, "live closed"), StatusClosed)

onClose(s) == shutdown(send(s, StatusClosed), "live closed")

\* onError, line 170.
onErrorFatal(s) == shutdown(send(s, ErrLive), "live error")

onError(s) == send(s, ErrLive)

\* The no-key branch of the connection handler, line 143.
noKey(s) == shutdown(send(s, ErrNoKey), "no key")

----------------------------------------------------------------------------
\* The session as a state machine.

Init ==
  /\ stage = "new"
  /\ live = FALSE
  /\ liveReady = FALSE
  /\ closed = FALSE
  /\ pending = <<>>
  /\ timer = "none"
  /\ up = <<>>
  /\ down = <<>>
  /\ logs = <<>>
  /\ connectCalls = 0
  /\ uncaught = FALSE
  /\ recv = <<>>
  /\ openFired = FALSE
  /\ liveClosedEvt = FALSE
  /\ liveErrs = 0
  /\ clientGone = FALSE
  /\ last = "none"

ConnectionNoReturn(hasKey) ==
  /\ stage = "new"
  /\ stage' = "connecting"
  /\ timer' = "armed"
  /\ connectCalls' = connectCalls + 1
  /\ IF hasKey THEN Commit(Cur) ELSE Commit(noKey(Cur))
  /\ last' = "connection"
  /\ UNCHANGED <<uncaught, env>>

\* wss.on('connection'), lines 118-152, up to the await: the handlers are
\* registered, then either the no-key branch runs or the timer is started
\* and ai.live.connect is called.
Connection(hasKey) ==
  /\ stage = "new"
  /\ IF hasKey
       THEN /\ stage' = "connecting"
            /\ timer' = "armed"
            /\ connectCalls' = connectCalls + 1
            /\ Commit(Cur)
       ELSE /\ stage' = "nokey"
            /\ Commit(noKey(Cur))
            /\ UNCHANGED <<timer, connectCalls>>
  /\ last' = "connection"
  /\ UNCHANGED <<uncaught, env>>

\* A frame arrives from the client (line 137).  The socket delivers frames
\* until its 'close' event, also after the relay has called client.close().
ClientMessage(k) ==
  /\ stage # "new"
  /\ ~clientGone
  /\ Len(recv) < MaxMsgs
  /\ LET m == Msg(k, Len(recv) + 1)
     IN /\ recv' = Append(recv, m)
        /\ Commit(onMessage(Cur, m))
  /\ last' = "message"
  /\ UNCHANGED <<stage, timer, connectCalls, uncaught, openFired,
                 liveClosedEvt, liveErrs, clientGone>>

\* The client socket's 'close' event (line 138).
ClientClose ==
  /\ stage # "new"
  /\ ~clientGone
  /\ clientGone' = TRUE
  /\ Commit(shutdown(Cur, "client closed"))
  /\ last' = "clientClose"
  /\ UNCHANGED <<stage, timer, connectCalls, uncaught, recv, openFired,
                 liveClosedEvt, liveErrs>>

\* The client socket's 'error' event (line 139): a log line, nothing else.
ClientError ==
  /\ stage # "new"
  /\ ~clientGone
  /\ last' = "clientError"
  /\ Commit(Cur)
  /\ UNCHANGED <<stage, timer, connectCalls, uncaught, env>>

\* The connect timer fires (lines 147-149).  shutdown does not clear it, so
\* it also fires on a session that is closed already.
TimerFire ==
  /\ timer = "armed"
  /\ timer' = "fired"
  /\ Commit(onTimer(Cur))
  /\ last' = "timer"
  /\ UNCHANGED <<stage, connectCalls, uncaught, env>>

\* The awaited ai.live.connect resolves and the handle is stored (line 152).
\* Nothing orders this against the callbacks the SDK invokes.
ConnectResolve ==
  /\ stage = "connecting"
  /\ stage' = "resolved"
  /\ Commit([Cur EXCEPT !.live = TRUE])
  /\ last' = "resolve"
  /\ UNCHANGED <<timer, connectCalls, uncaught, env>>

UpstreamUp == stage \in {"connecting", "resolved"} /\ ~liveClosedEvt

\* The upstream signals open (lines 162-168), at most once, and not on a
\* handle the relay has closed.
OnOpen ==
  /\ UpstreamUp
  /\ ~openFired
  /\ LiveCloseCall \notin {up[i] : i \in 1..Len(up)}
  /\ openFired' = TRUE
  /\ timer' = IF timer = "armed" THEN "cleared" ELSE timer
  /\ LET r == onOpen(Cur)
     IN /\ Commit(r)
        /\ uncaught' = (uncaught \/ r.err # "")
  /\ last' = "onOpen"
  /\ UNCHANGED <<stage, connectCalls, recv, liveClosedEvt, liveErrs, clientGone>>

\* The upstream signals close (line 169).
OnClose ==
  /\ UpstreamUp
  /\ liveClosedEvt' = TRUE
  /\ Commit(onClose(Cur))
  /\ last' = "onClose"
  /\ UNCHANGED <<stage, timer, connectCalls, uncaught, recv, openFired,
                 liveErrs, clientGone>>

\* The upstream signals an error (line 170).
OnError ==
  /\ UpstreamUp
  /\ liveErrs < MaxLiveErrs
  /\ liveErrs' = liveErrs + 1
  /\ Commit(onError(Cur))
  /\ last' = "onError"
  /\ UNCHANGED <<stage, timer, connectCalls, uncaught, recv, openFired,
                 liveClosedEvt, clientGone>>

Next ==
  \/ \E hasKey \in BOOLEAN : Connection(hasKey)
  \/ \E k \in Kinds : ClientMessage(k)
  \/ ClientClose
  \/ ClientError
  \/ TimerFire
  \/ ConnectResolve
  \/ OnOpen
  \/ OnClose
  \/ OnError

Spec == Init /\ [][Next]_vars

\* setTimeout runs the timer's callback once the delay has passed, and the
\* accepted connection's handler always runs.
FairSpec == Spec /\ WF_vars(TimerFire) /\ WF_vars(\E hasKey \in BOOLEAN : Connection(hasKey))

----------------------------------------------------------------------------
\* Vocabulary of the properties.

Count(seq, x) == Cardinality({i \in DOMAIN seq : seq[i] = x})
IsUpSend(c) == c.op = "send"
IsDownMsg(c) == c.type # "close()"
UpSends == SelectSeq(up, IsUpSend)
DownMsgs == SelectSeq(down, IsDownMsg)
DownErrors == {i \in DOMAIN down : down[i].type = "error"}
TimeoutErrs == Count(down, ErrTimeout)
\* Position in `down` of the first client.close() call (0 when there is none).
FirstClose ==
  IF Count(down, ClientCloseCall) = 0 THEN 0
  ELSE CHOOSE i \in DOMAIN down :
         down[i] = ClientCloseCall /\ \A j \in 1..(i - 1) : down[j] # ClientCloseCall
\* The step is the message handler running on a frame of kind k.
Arrives(k) ==
  /\ last' = "message"
  /\ Len(recv') = Len(recv) + 1
  /\ recv'[Len(recv')].kind = k

----------------------------------------------------------------------------
\* C1 (Ordering), as claimed: once the upstream is open, the session still
\* open and only setup/text frames received, the directives sent upstream
\* are exactly the translations of the received frames, in arrival order,
\* none dropped and none duplicated.
C1_Ordering ==
  (liveReady /\ ~closed /\ \A i \in DOMAIN recv : recv[i].kind \in {"setup", "text"})
    => UpSends = [i \in DOMAIN recv |-> UpSend(recv[i].kind, recv[i].id)]

\* C2 (No premature forwarding): no live.send call has been made unless
\* the upstream onOpen event has fired.
C2_NoPrematureForwarding == (UpSends # <<>>) => openFired

\* Frames have arrived and the handle is stored, but the upstream has not
\* opened: they wait in pending and nothing was sent.
C2_Witness ==
  /\ ~openFired
  /\ live
  /\ \E i \in DOMAIN pending : pending[i].kind = "text"
  /\ UpSends = <<>>

\* C3 (Idempotent shutdown), as claimed: when the session is closed, each
\* teardown side effect -- the upstream close call, the downstream close
\* call, the 'end' log entry -- has been applied exactly once.
C3_Original ==
  closed => /\ Count(up, LiveCloseCall) = 1
            /\ Count(down, ClientCloseCall) = 1
            /\ Len(logs) = 1

\* C3 as amended: closed goes from false to true once and never back; the
\* downstream close call and the 'end' log entry are applied exactly once,
\* by the first trigger; the upstream close call is made by the first
\* trigger exactly when the handle is stored by then, and otherwise never;
\* a shutdown on a closed session changes none of these.
C3_IdempotentShutdown ==
  /\ [](/\ Count(down, ClientCloseCall) = (IF closed THEN 1 ELSE 0)
        /\ Len(logs) = (IF closed THEN 1 ELSE 0)
        /\ Count(up, LiveCloseCall) <= 1)
  /\ [][(~closed /\ closed') =>
          Count(up', LiveCloseCall) = (IF live THEN 1 ELSE 0)]_vars
  /\ [][closed => /\ closed'
                  /\ logs' = logs
                  /\ Count(up', LiveCloseCall) = Count(up, LiveCloseCall)
                  /\ Count(down', ClientCloseCall) = Count(down, ClientCloseCall)]_vars

\* Two shutdown triggers have fired on a session with a stored handle: the
\* client socket closed and the upstream closed.
C3_Witness ==
  /\ closed
  /\ clientGone
  /\ liveClosedEvt
  /\ live
  /\ Len(logs) = 1

\* C4 (Nothing happens after closed), as claimed: on a closed session no
\* handler sends a message downstream or a directive upstream, and no call
\* on the client socket follows its close() call.
C4_NothingAfterClosed ==
  /\ [][closed => (UpSends' = UpSends /\ DownMsgs' = DownMsgs)]_vars
  /\ [](\A i \in DOMAIN down : down[i] = ClientCloseCall => i = Len(down))
  /\ [](\A i \in DOMAIN up : up[i] = LiveCloseCall => i = Len(up))

\* C5 (Credential gate), as claimed: a session created without a
\* credential has sent exactly one error message downstream, is shut down
\* with reason 'no key', and has made no connect call and started no timer,
\* whatever frames the client sends.
C5_CredentialGate ==
  (stage = "nokey") =>
    /\ Cardinality(DownErrors) = 1
    /\ closed
    /\ logs = <<"no key">>
    /\ connectCalls = 0
    /\ timer = "none"
    /\ up = <<>>

\* C6 (Connect timeout): the 'connect timed out' error is sent at most
\* once; when the timer fires with the upstream not open, the session is
\* closed and exactly one such error has been sent; and a started timer
\* leads to the upstream being open or to that closed state.
C6_ConnectTimeout ==
  /\ [](TimeoutErrs <= 1)
  /\ [][(timer = "armed" /\ timer' = "fired" /\ ~openFired) =>
          (TimeoutErrs' = 1 /\ closed')]_vars
  /\ ((timer = "armed") ~> (openFired \/ (closed /\ TimeoutErrs = 1)))

\* The timer fired before any open: one timeout error, then the shutdown.
C6_Witness ==
  /\ timer = "fired"
  /\ ~openFired
  /\ closed
  /\ logs = <<"connect timeout">>
  /\ TimeoutErrs = 1

C8_Original ==
  (closed /\ logs # <<>> /\ logs[1] \in {"no key", "connect timeout", "live closed"})
    => \E i \in DownErrors : i < FirstClose

\* C8 as amended: before such a shutdown a message was sent downstream: the
\* missing-key error for no key, the timed-out error for connect timeout,
\* and for upstream close the status 'closed' message (not an error).
C8_NoticeBeforeShutdown ==
  (closed /\ logs # <<>>) =>
    /\ logs[1] = "no key" =>
         \E i \in 1..(FirstClose - 1) : down[i] = ErrNoKey
    /\ logs[1] = "connect timeout" =>
         \E i \in 1..(FirstClose - 1) : down[i] = ErrTimeout
    /\ logs[1] = "live closed" =>
         (FirstClose > 1 /\ down[FirstClose - 1] = StatusClosed)

\* The upstream closed an open session: status 'closed' was sent and no
\* error message at all.
C8_Witness ==
  /\ closed
  /\ logs = <<"live closed">>
  /\ DownErrors = {}
  /\ StatusClosed \in {down[i] : i \in DOMAIN down}

\* C9 (Explicit end), as claimed: the handler of an end frame on an open
\* session shuts it down with reason 'client requested end', before as
\* after the upstream open, and sends nothing upstream.
C9_Original ==
  [][(Arrives("end") /\ ~closed) =>
       (closed' /\ logs' = <<"client requested end">> /\ UpSends' = UpSends)]_vars

\* The pending entries ahead of the first end are forwarded without an
\* exception, so that the drain reaches the end.
DrainReachesEnd ==
  \E i \in DOMAIN pending :
    /\ pending[i].kind = "end"
    /\ \A j \in 1..(i - 1) :
         /\ pending[j].kind # "null"
         /\ pending[j].kind \in {"setup", "text"} => live

\* C9 as amended: an end frame that forward processes while liveReady is
\* true -- arriving after the open, or drained from pending at the open --
\* shuts a session that is not yet closed down with reason 'client
\* requested end'; an end frame arriving before the open is only appended
\* to pending; no directive for an end frame is ever sent upstream.
C9_ExplicitEnd ==
  /\ [][(Arrives("end") /\ liveReady /\ ~closed) =>
          (closed' /\ logs' = <<"client requested end">> /\ UpSends' = UpSends)]_vars
  /\ [][(Arrives("end") /\ ~liveReady) =>
          /\ pending' = Append(pending, Msg("end", Len(recv')))
          /\ UNCHANGED <<closed, up, down, logs>>]_vars
  /\ [][(last' = "onOpen" /\ openFired' /\ ~openFired /\ ~closed /\ DrainReachesEnd) =>
          (closed' /\ logs' = <<"client requested end">>)]_vars
  /\ [](\A i \in DOMAIN up : up[i].op = "send" => recv[up[i].id].kind \in {"setup", "text"})

\* An end frame queued before the open shut the session down at the drain.
C9_Witness ==
  /\ last = "onOpen"
  /\ closed
  /\ logs = <<"client requested end">>

\* C10 (Downstream transport error is terminal), as claimed: the client
\* socket's 'error' event on a session that is not closed closes it.
C10_ClientErrorTerminal ==
  [][(last' = "clientError" /\ ~closed) => closed']_vars

\* C11 (Upstream close): when onClose fires on a session that is not yet
\* closed, the status 'closed' message is sent downstream first, then the
\* shutdown with reason 'live closed' is performed (the client close call
\* follows the status message), and the session is closed afterwards.
C11_UpstreamClose ==
  [][(liveClosedEvt' /\ ~liveClosedEvt /\ ~closed) =>
       /\ down' = down \o <<StatusClosed, ClientCloseCall>>
       /\ closed'
       /\ logs' = <<"live closed">>
       /\ up' = (IF live THEN Append(up, LiveCloseCall) ELSE up)]_vars

\* The upstream closed a session that had been opened and was not closed.
C11_Witness ==
  /\ last = "onClose"
  /\ openFired
  /\ live
  /\ logs = <<"live closed">>
  /\ closed

C13_ResourceRelease ==
  (closed /\ live) => Count(up, LiveCloseCall) = 1

\* C14 (Timer cancellation), as claimed: after the upstream open the timer
\* sends no timeout error and triggers no shutdown; without the open, the
\* timer fires at most once and its firing causes exactly one shutdown.
C14_TimerCancellation ==
  /\ [][openFired => (TimeoutErrs' = TimeoutErrs /\ Count(logs', "connect timeout") = Count(logs, "connect timeout"))]_vars
  /\ [](TimeoutErrs <= 1 /\ Count(logs, "connect timeout") <= 1)
  /\ [][(timer = "armed" /\ timer' = "fired" /\ ~openFired) =>
          logs' = Append(logs, "connect timeout")]_vars

\* C15 (Queue invariant): between callbacks, pending is non-empty only
\* while liveReady is false; once liveReady is true it stays true, pending
\* is empty and stays empty whatever arrives.
C15_QueueInvariant ==
  /\ [](liveReady => pending = <<>>)
  /\ [][liveReady => (liveReady' /\ pending' = <<>>)]_vars

\* Frames were queued before the open and the open has just drained them
\* upstream, leaving pending empty.
C15_Witness ==
  /\ liveReady
  /\ pending = <<>>
  /\ last = "onOpen"
  /\ Len(UpSends) >= 2

\* C16 (At most one upstream session): ai.live.connect is invoked at most
\* once over the life of the session, never on a session that is closed,
\* and a session shut down for the missing key has not invoked it.
C16_AtMostOneUpstream ==
  /\ [](connectCalls <= 1)
  /\ []((logs # <<>> /\ logs[1] = "no key") => connectCalls = 0)
  /\ [][closed => connectCalls' = connectCalls]_vars

\* The session connected once, was closed, and events kept arriving.
C16_Witness ==
  /\ connectCalls = 1
  /\ closed
  /\ recv # <<>>
  /\ last \in {"message", "onOpen", "resolve"}

\* C17 (Open sequence): the onOpen callback sets liveReady, sends the
\* status 'open' message downstream as its first call, and leaves pending
\* drained; no directive was sent upstream before it, so the status comes
\* before the first directive; the status is sent once per open event.
C17_OpenSequence ==
  /\ [][(openFired' /\ ~openFired) =>
          /\ liveReady'
          /\ UpSends = <<>>
          /\ Len(down') > Len(down)
          /\ SubSeq(down', 1, Len(down)) = down
          /\ down'[Len(down) + 1] = StatusOpen
          /\ Count(down', StatusOpen) = Count(down, StatusOpen) + 1
          /\ pending' = <<>>]_vars
  /\ [](Count(down, StatusOpen) = (IF openFired THEN 1 ELSE 0))

\* The open found queued frames: the status went downstream and the drain
\* sent their directives upstream.
C17_Witness ==
  /\ last = "onOpen"
  /\ liveReady
  /\ UpSends # <<>>
  /\ Count(down, StatusOpen) = 1

\* C18 (Handle availability), as claimed: whenever liveReady is true the
\* upstream handle is stored in `live`, so that no frame is translated by
\* forward without it.
C18_HandleAvailable == liveReady => live

\* The well-formed JSON frames that match no recognized variant.
Unrecognized == {"setupNoSI", "textNoStr", "other", "null"}
IsRecognized(m) == m.kind \notin Unrecognized

\* C19 (Unrecognized messages are silently ignored), as claimed: the
\* handler of such a frame sends nothing upstream, no error downstream and
\* does not shut down; and the open handles a queue holding such frames
\* exactly as it handles the queue without them.
C19_UnrecognizedIgnored ==
  /\ [][\A k \in Unrecognized : Arrives(k) => UNCHANGED <<up, down, closed, logs>>]_vars
  /\ [][(openFired' /\ ~openFired) =>
          LET r == onOpen([Cur EXCEPT !.pending = SelectSeq(pending, IsRecognized)])
          IN <<up', down', closed', logs', pending'>> =
               <<r.up, r.down, r.closed, r.logs, r.pending>>]_vars

====
